---- MODULE Spec2Model ----
\* A state-machine model of examples/ccr_example.py: main() and the three
\* example coroutines it awaits in sequence.  The client library
\* (ClaudeSDKClient) is an opaque dependency: every call into it either
\* returns or raises, and a response stream yields a finite number of messages.
\* Python semantics that the script relies on are modelled as they are:
\*   - `async with` calls __aexit__ whenever __aenter__ succeeded, whether the
\*     block completes or raises; __aexit__ is taken not to suppress the
\*     exception of the block (it returns a false value or raises);
\*   - `except Exception` catches instances of Exception only; an exception
\*     that derives from BaseException alone (asyncio.CancelledError,
\*     KeyboardInterrupt, SystemExit) is not caught by it.
EXTENDS Integers, Sequences, FiniteSets, TLC

VARIABLES
    pc,           \* position of main() (see the control flow below)
    cur,          \* the example coroutine being awaited ("none" outside the try)
    turn,         \* index of the prompt of `cur` being processed (0 = none yet)
    exc,          \* class of the exception in flight ("none" if there is none)
    out,          \* stdout: the sequence of lines printed so far
    received,     \* the messages the response stream being iterated has yielded
    configExists, \* result of config_file.exists(): "unknown" before the check
    sampleExists, \* result of SAMPLE_CONFIG.exists(): "unknown" if not evaluated
    env,          \* the API-key environment variables that are set
    started,      \* history: the examples started, in order
    opened,       \* history: the examples whose __aenter__ returned, in order
    openSessions, \* the sessions entered and not yet exited
    client,       \* the session bound by `async with ... as client` (0 = none)
    sent,         \* history: the client.query() calls made, in order
    consumed,     \* history: the queries whose response stream ran to its end
    raisedKinds   \* history: the classes of the exceptions client calls raised

vars == <<pc, cur, turn, exc, out, received, configExists, sampleExists, env,
          started, opened, openSessions, client, sent, consumed, raisedKinds>>

\* ------------------------------------------------------------------ bounds

\* The longest response stream the client yields.
MaxStream == 2

\* ------------------------------------------------------------- exceptions

\* The exception classes a call can raise, by what `except Exception` does
\* with them.
ExcKinds == {"Exception", "BaseException"}

\* The outcomes of one awaited client call.
CallOutcomes == {"ok"} \cup ExcKinds

\* Variant: a handler that matches no exception the client raises.
Catches_NarrowHandler(x) == FALSE

\* `except Exception as e` (line 115).
Catches(x) == x = "Exception"

\* ------------------------------------------------------------ environment

ApiKeyVars == {"OPENROUTER_API_KEY", "DEEPSEEK_API_KEY"}

\* The environments considered: no API key set, every API key set.
Environments == {{}, ApiKeyVars}

\* Variant: main() also refuses to start when no API key is set.
SkipExamples_ChecksKeys(exists, e) == ~exists \/ e = {}

\* The local decision of main() to skip the examples (line 103).
SkipExamples(exists, e) == ~exists

\* ------------------------------------------------------------------ lines

Line(kind, text, n) == [line |-> kind, text |-> text, n |-> n]

Plain(kind) == Line(kind, "", 0)

Min(a, b) == IF a < b THEN a ELSE b

\* text[:100] (line 66): the first 100 characters of the text.
SliceLen == 100

\* f"{x:.6f}" (line 48): costs are held in units of 1e-7 USD and printed
\* rounded to 1e-6 USD (no value used lies on a rounding tie).
FormatCost(c) == (c + 5) \div 10

\* Variant: both instruction lines are printed (no else).
MissingConfigLines_Both(sample) ==
    <<Plain("Warning: Config file not found"),
      Plain("Copy the sample"),
      Plain("Please create the config file first.")>>

\* Lines 104-108: the warning and one instruction line.
MissingConfigLines(sample) ==
    <<Plain("Warning: Config file not found"),
      IF sample THEN Plain("Copy the sample")
                ELSE Plain("Please create the config file first.")>>

\* Lines 116-120: the error line and the troubleshooting message.
HandlerLines ==
    <<Plain("Error"),
      Plain("Make sure:"),
      Plain("1. ccr is installed"),
      Plain("2. claude CLI is installed"),
      Plain("3. API keys are set in environment variables")>>

\* --------------------------------------------------------------- messages

TextBlock(t, n) == [type |-> "text", text |-> t, len |-> n]

ToolUseBlock == [type |-> "tool_use", text |-> "", len |-> 0]

Msg(type, content, hasCost, cost) ==
    [type |-> type, content |-> content, session_id |-> "sid",
     hasCost |-> hasCost, cost |-> cost]

\* The messages a response stream may yield: an assistant message with a text
\* block, a non-text block and a text block longer than the slice; result
\* messages with total_cost_usd None, 0, and non-zero; a message of another
\* type.
Messages ==
    { Msg("assistant",
          <<TextBlock("a", 5), ToolUseBlock, TextBlock("b", 150)>>, FALSE, 0),
      Msg("result", <<>>, FALSE, 0),
      Msg("result", <<>>, TRUE, 0),
      Msg("result", <<>>, TRUE, 12),
      Msg("system", <<>>, FALSE, 0) }

RECURSIVE TextLines(_, _, _)
\* `for block in message.content: if isinstance(block, TextBlock): print(...)`
\* with the given prefix; cut > 0 slices the text (lines 42-44, 64-66, 72-74,
\* 92-94).
TextLines(content, prefix, cut) ==
    IF content = <<>> THEN <<>>
    ELSE LET b == Head(content)
             rest == TextLines(Tail(content), prefix, cut)
         IN IF b.type = "text"
            THEN <<Line(prefix, b.text,
                        IF cut > 0 THEN Min(b.len, cut) ELSE b.len)>> \o rest
            ELSE rest

\* Variant: `is not None` instead of truthiness.
CostShown_WhenPresent(m) == m.hasCost

\* `if message.total_cost_usd:` (line 47).
CostShown(m) == m.hasCost /\ m.cost # 0

\* Lines 45-48: what a ResultMessage prints in the basic example.
ResultLines(m) ==
    <<Line("Session ID", m.session_id, 0)>> \o
    (IF CostShown(m) THEN <<Line("Cost", "", FormatCost(m.cost))>> ELSE <<>>)

\* The body of the `async for` loop of example e, turn t, for message m.
MessageLines(e, t, m) ==
    CASE e = "basic" ->
           IF m.type = "assistant" THEN TextLines(m.content, "Response", 0)
           ELSE IF m.type = "result" THEN ResultLines(m)
           ELSE <<>>
      [] e = "conversation" /\ t = 1 ->
           IF m.type = "assistant" THEN TextLines(m.content, "Turn 1", SliceLen)
           ELSE <<>>
      [] e = "conversation" /\ t = 2 ->
           IF m.type = "assistant" THEN TextLines(m.content, "Turn 2", 0)
           ELSE <<>>
      [] OTHER ->
           IF m.type = "assistant" THEN TextLines(m.content, "Response", 0)
           ELSE <<>>

\* --------------------------------------------------------------- examples

\* Variant: the first two awaits of main() exchanged.
Examples_Swapped == <<"conversation", "basic", "tools">>

\* The order in which main() awaits the examples (lines 112-114).
Examples == <<"basic", "conversation", "tools">>

Header(e) ==
    CASE e = "basic" -> Plain("=== Basic Query Example ===")
      [] e = "conversation" -> Plain("=== Conversation Example ===")
      [] OTHER -> Plain("=== Tools Example ===")

\* Variant: the conversation example without its second turn.
Prompts_OneTurn(e) ==
    CASE e = "basic" -> <<"What is 2 + 2? Answer briefly.">>
      [] e = "conversation" -> <<"Remember this number: 42">>
      [] OTHER -> <<"What is the current directory? Use bash to find out.">>

\* The prompts each example sends, in order (lines 38, 61, 69, 88).
Prompts(e) ==
    CASE e = "basic" -> <<"What is 2 + 2? Answer briefly.">>
      [] e = "conversation" -> <<"Remember this number: 42",
                                 "What number did I ask you to remember?">>
      [] OTHER -> <<"What is the current directory? Use bash to find out.">>

IndexOf(e) == CHOOSE i \in 1..Len(Examples) : Examples[i] = e

IsLast(e) == IndexOf(e) = Len(Examples)

\* ----------------------------------------------------------- control flow

\* pc is one of "main", "example", "enter", "query", "recv", "exit", "except"
\* while main() runs, "returned" once it has returned and "escaped" once an
\* exception has left it.

\* Variant: the next query is sent without reading the response.
AfterQuery_NoReceive(e, t) == IF t < Len(Prompts(e)) THEN "query" ELSE "recv"

\* After `await client.query(...)` returns, the response is streamed.
AfterQuery(e, t) == "recv"

\* Variant: the loop never ends (receive_messages() for receive_response()).
AfterStream_Blocks(e, t) == "blocked"

\* After the `async for` loop ends: the next query of the example, or the end
\* of the `async with` block.
AfterStream(e, t) == IF t < Len(Prompts(e)) THEN "query" ELSE "exit"

\* Variant: no context manager, the session is not closed on an exception.
BlockRaiseTarget_NoExit == "except"

\* An exception raised inside an `async with` block runs __aexit__ first.
BlockRaiseTarget == "exit"

\* Variant: the handler starts the failed example again.
HandlerTarget_Retry == "example"

\* After the except clause the try statement, and main(), are over.
HandlerTarget == "returned"

Init ==
    /\ pc = "main"
    /\ cur = "none"
    /\ turn = 0
    /\ exc = "none"
    /\ out = <<>>
    /\ received = <<>>
    /\ configExists = "unknown"
    /\ sampleExists = "unknown"
    /\ env \in Environments
    /\ started = <<>>
    /\ opened = <<>>
    /\ openSessions = {}
    /\ client = 0
    /\ sent = <<>>
    /\ consumed = <<>>
    /\ raisedKinds = {}

\* main(), lines 99-109: print the banner, test the config file, and either
\* print the warning and return or enter the try statement.
Main ==
    /\ pc = "main"
    /\ \E exists \in BOOLEAN, sample \in BOOLEAN :
         /\ configExists' = (IF exists THEN "yes" ELSE "no")
         /\ IF SkipExamples(exists, env)
            THEN /\ out' = out \o <<Plain("Using ccr config from")>>
                               \o MissingConfigLines(sample)
                 /\ sampleExists' = (IF sample THEN "yes" ELSE "no")
                 /\ pc' = "returned"
                 /\ cur' = cur
            ELSE /\ out' = out \o <<Plain("Using ccr config from")>>
                 /\ UNCHANGED sampleExists
                 /\ pc' = "example"
                 /\ cur' = Examples[1]
    /\ UNCHANGED <<turn, exc, received, env, started, opened, openSessions,
                   client, sent, consumed, raisedKinds>>

\* An example coroutine starts: it prints its header and builds its options
\* (lines 31-35, 53-57, 79-85).
ExampleStart ==
    /\ pc = "example"
    /\ out' = out \o <<Header(cur)>>
    /\ started' = Append(started, cur)
    /\ turn' = 0
    /\ pc' = "enter"
    /\ UNCHANGED <<cur, exc, received, configExists, sampleExists, env, opened,
                   openSessions, client, sent, consumed, raisedKinds>>

\* `async with ClaudeSDKClient(options=options) as client` (lines 37, 59, 87):
\* the session opens, or opening raises and the exception leaves the example.
Enter ==
    /\ pc = "enter"
    /\ \E r \in CallOutcomes :
         IF r = "ok"
         THEN /\ opened' = Append(opened, cur)
              /\ client' = Len(opened) + 1
              /\ openSessions' = openSessions \cup {Len(opened) + 1}
              /\ turn' = 1
              /\ pc' = "query"
              /\ UNCHANGED <<exc, raisedKinds>>
         ELSE /\ exc' = r
              /\ raisedKinds' = raisedKinds \cup {r}
              /\ pc' = "except"
              /\ UNCHANGED <<opened, client, openSessions, turn>>
    /\ UNCHANGED <<cur, out, received, configExists, sampleExists, env,
                   started, sent, consumed>>

\* `await client.query(prompt)` (lines 38, 61, 69, 88).
Query ==
    /\ pc = "query"
    /\ sent' = Append(sent, [prompt |-> Prompts(cur)[turn], session |-> client])
    /\ received' = <<>>
    /\ \E r \in CallOutcomes :
         IF r = "ok"
         THEN /\ pc' = AfterQuery(cur, turn)
              /\ turn' = IF AfterQuery(cur, turn) = "query" THEN turn + 1
                         ELSE turn
              /\ UNCHANGED <<exc, raisedKinds>>
         ELSE /\ exc' = r
              /\ raisedKinds' = raisedKinds \cup {r}
              /\ pc' = BlockRaiseTarget
              /\ UNCHANGED turn
    /\ UNCHANGED <<cur, out, configExists, sampleExists, env, started, opened,
                   openSessions, client, consumed>>

\* One step of `async for message in client.receive_response()`: the stream
\* yields a message and the loop body prints for it, or the stream ends, or
\* it raises.
Recv ==
    /\ pc = "recv"
    /\ \/ \E m \in Messages :
            /\ Len(received) < MaxStream
            /\ received' = Append(received, m)
            /\ out' = out \o MessageLines(cur, turn, m)
            /\ UNCHANGED <<pc, turn, exc, raisedKinds, consumed>>
       \/ /\ consumed' = Append(consumed, Prompts(cur)[turn])
          /\ pc' = AfterStream(cur, turn)
          /\ turn' = IF AfterStream(cur, turn) = "query" THEN turn + 1 ELSE turn
          /\ received' = <<>>
          /\ UNCHANGED <<out, exc, raisedKinds>>
       \/ \E x \in ExcKinds :
            /\ exc' = x
            /\ raisedKinds' = raisedKinds \cup {x}
            /\ pc' = BlockRaiseTarget
            /\ received' = <<>>
            /\ UNCHANGED <<out, turn, consumed>>
    /\ UNCHANGED <<cur, configExists, sampleExists, env, started, opened, openSessions,
                   client, sent>>

\* The end of the `async with` block: __aexit__ closes the session.  If it
\* returns, the exception of the block (if any) goes on to main(); otherwise
\* the example returns and main() awaits the next one or leaves the try
\* statement.  If __aexit__ raises, its exception goes on to main().
ExitSession ==
    /\ pc = "exit"
    /\ openSessions' = openSessions \ {client}
    /\ client' = 0
    /\ \E r \in CallOutcomes :
         IF r = "ok"
         THEN /\ UNCHANGED <<exc, raisedKinds>>
              /\ IF exc # "none"
                 THEN pc' = "except" /\ cur' = cur
                 ELSE IF IsLast(cur)
                      THEN pc' = "returned" /\ cur' = cur
                      ELSE pc' = "example" /\ cur' = Examples[IndexOf(cur) + 1]
         ELSE /\ exc' = r
              /\ raisedKinds' = raisedKinds \cup {r}
              /\ pc' = "except"
              /\ cur' = cur
    /\ UNCHANGED <<turn, out, received, configExists, sampleExists, env, started, opened,
                   sent, consumed>>

\* The try statement of main() (lines 111-120) receives an exception: the
\* handler prints the error and the troubleshooting message, or the exception
\* is not an Exception and leaves main().
Except ==
    /\ pc = "except"
    /\ IF Catches(exc)
       THEN /\ out' = out \o HandlerLines
            /\ exc' = "none"
            /\ pc' = HandlerTarget
       ELSE /\ pc' = "escaped"
            /\ UNCHANGED <<out, exc>>
    /\ UNCHANGED <<cur, turn, received, configExists, sampleExists, env, started, opened,
                   openSessions, client, sent, consumed, raisedKinds>>

Next ==
    \/ Main
    \/ ExampleStart
    \/ Enter
    \/ Query
    \/ Recv
    \/ ExitSession
    \/ Except

Spec == Init /\ [][Next]_vars

\* asyncio.run() drives main() to completion: a coroutine that can take a
\* step does take it, every client call returning or raising.
FairSpec == Spec /\ WF_vars(Next)

\* ------------------------------------------------------------- properties

\* main() is over: it returned, or an exception left it.
Terminated == pc \in {"returned", "escaped"}

\* Some client call has raised.
Raised == raisedKinds # {}

IsPrefix(a, b) == Len(a) <= Len(b) /\ \A i \in 1..Len(a) : a[i] = b[i]

EndsWith(a, b) ==
    /\ Len(a) >= Len(b)
    /\ \A i \in 1..Len(b) : a[Len(a) - Len(b) + i] = b[i]

NoDuplicates(a) == \A i, j \in 1..Len(a) : a[i] = a[j] => i = j

PromptsOf(q) == [i \in 1..Len(q) |-> q[i].prompt]

SessionsOf(q) == [i \in 1..Len(q) |-> q[i].session]

HasLine(kind) == \E i \in 1..Len(out) : out[i].line = kind

TheOrder == <<"basic", "conversation", "tools">>

ThePrompts ==
    <<"What is 2 + 2? Answer briefly.",
      "Remember this number: 42",
      "What number did I ask you to remember?",
      "What is the current directory? Use bash to find out.">>

\* C1: when the config file does not exist, main() prints the warning and
\* exactly one instruction line (the copy hint if the sample exists, the
\* create line otherwise) and returns without raising; no example is started,
\* no session is opened and no prompt is sent.
C1_MissingConfigReturns ==
    configExists = "no" =>
        /\ pc = "returned"
        /\ exc = "none"
        /\ out = <<Plain("Using ccr config from"),
                   Plain("Warning: Config file not found"),
                   IF sampleExists = "yes"
                   THEN Plain("Copy the sample")
                   ELSE Plain("Please create the config file first.")>>
        /\ started = <<>>
        /\ opened = <<>>
        /\ openSessions = {}
        /\ sent = <<>>

C1_Witness ==
    configExists = "no" /\ sampleExists = "yes" /\ pc = "returned"

\* C2 as stated: every exception a client call raises is caught in main(),
\* the error and the troubleshooting message are printed and main() returns;
\* no exception escapes main().
C2_AllExceptionsCaught ==
    /\ pc # "escaped"
    /\ (pc = "returned" /\ Raised) => EndsWith(out, HandlerLines)

\* C2, amended: an exception that leaves an example and derives from
\* Exception is caught in main(), the error and the troubleshooting message
\* are printed and main() returns; only an exception that does not derive
\* from Exception escapes main().
C2_ExceptionsCaught ==
    /\ pc = "escaped" => exc = "BaseException"
    /\ (pc = "returned" /\ Raised) => (exc = "none" /\ EndsWith(out, HandlerLines))
    /\ (Terminated /\ raisedKinds = {"Exception"}) => pc = "returned"

C2_Witness ==
    /\ pc = "returned"
    /\ raisedKinds = {"Exception"}
    /\ Len(opened) = 2
    /\ Len(consumed) = 1

\* C3: no retry: each example is started at most once, each prompt is sent at
\* most once, and once a client call has raised no example is started and no
\* prompt is sent any more.
C3_NoRetry ==
    [][ /\ NoDuplicates(started')
        /\ NoDuplicates(PromptsOf(sent'))
        /\ Raised => (started' = started /\ sent' = sent) ]_vars

C3_Witness ==
    /\ pc = "returned"
    /\ Raised
    /\ started = <<"basic">>
    /\ Len(sent) = 1

\* C4: the examples start in the order basic, conversation, tools; an example
\* starts only when no session is open; at most one session is open at any
\* time.
C4_Sequential ==
    /\ IsPrefix(started, TheOrder)
    /\ pc \in {"example", "enter"} => openSessions = {}
    /\ Cardinality(openSessions) <= 1

C4_Witness ==
    /\ started = TheOrder
    /\ openSessions = {3}
    /\ pc = "recv"

\* C5: when the config file exists and no client call raises, the run opens
\* three sessions and sends the four prompts in order (one, two and one per
\* session), every prompt sent has its response stream consumed to the end
\* before anything else is sent, and the troubleshooting message is not
\* printed.
C5_SuccessfulRun ==
    (configExists = "yes" /\ ~Raised) =>
        /\ IsPrefix(consumed, PromptsOf(sent))
        /\ Len(sent) <= Len(consumed) + 1
        /\ ~HasLine("Make sure:")
        /\ ~HasLine("Error")
        /\ Terminated =>
             /\ pc = "returned"
             /\ opened = TheOrder
             /\ PromptsOf(sent) = ThePrompts
             /\ SessionsOf(sent) = <<1, 2, 2, 3>>
             /\ consumed = ThePrompts

C5_Witness ==
    /\ pc = "returned"
    /\ configExists = "yes"
    /\ ~Raised
    /\ Len(out) > 6

\* C6: the decision to skip or to start the examples is the same for every
\* setting of the API-key environment variables: the examples are skipped
\* exactly when the config file does not exist.
C6_KeysNotValidated ==
    configExists # "unknown" =>
        /\ (configExists = "no") <=> (pc = "returned" /\ started = <<>>)
        /\ (configExists = "yes") <=> (cur # "none")

C6_Witness ==
    /\ configExists = "yes"
    /\ env = {}
    /\ Len(started) = 3

\* C7: a session that was opened is closed before its example returns or
\* lets an exception through: no session is open between examples, in the
\* handler of main(), or when main() is over.
C7_SessionsClosed ==
    pc \in {"example", "enter", "except", "returned", "escaped"} =>
        /\ openSessions = {}
        /\ client = 0

C7_Witness ==
    /\ pc = "except"
    /\ opened = <<"basic">>
    /\ consumed = <<>>

\* C8: in the conversation example the second prompt is sent on the session
\* of the first, which is still open, only after the response stream of the
\* first prompt has been consumed to its end, and never after a client call
\* has raised.
C8_SecondTurn ==
    [][ (sent' # sent /\ sent'[Len(sent')].prompt = ThePrompts[3]) =>
          /\ ~Raised
          /\ Len(sent) >= 1
          /\ sent[Len(sent)].prompt = ThePrompts[2]
          /\ sent[Len(sent)].session = sent'[Len(sent')].session
          /\ sent'[Len(sent')].session \in openSessions
          /\ Len(consumed) = Len(sent)
          /\ consumed[Len(consumed)] = ThePrompts[2] ]_vars

C8_Witness ==
    /\ Len(sent) = 3
    /\ pc = "recv"
    /\ Len(received) = 1

RECURSIVE ExpectedBlocks(_)
\* One "Response" line per text block, in order; nothing for other blocks.
ExpectedBlocks(content) ==
    IF content = <<>> THEN <<>>
    ELSE (IF Head(content).type = "text"
          THEN <<[line |-> "Response", text |-> Head(content).text,
                  n |-> Head(content).len]>>
          ELSE <<>>) \o ExpectedBlocks(Tail(content))

RECURSIVE ExpectedBasic(_)
\* What the basic example is to have printed for a stream of messages.
ExpectedBasic(stream) ==
    IF stream = <<>> THEN <<>>
    ELSE LET m == Head(stream)
         IN (CASE m.type = "assistant" -> ExpectedBlocks(m.content)
               [] m.type = "result" ->
                    <<[line |-> "Session ID", text |-> m.session_id, n |-> 0]>>
                    \o (IF m.hasCost /\ m.cost # 0
                        THEN <<[line |-> "Cost", text |-> "",
                                n |-> (m.cost + 5) \div 10]>>
                        ELSE <<>>)
               [] OTHER -> <<>>)
            \o ExpectedBasic(Tail(stream))

\* C9: in the basic example the lines printed for the response stream are,
\* message by message in stream order: for an assistant message one
\* "Response" line per text block; for a result message the session ID, and
\* the cost line only if the total cost is present and non-zero; for any
\* other message nothing.
C9_BasicPrinting ==
    (cur = "basic" /\ pc = "recv") =>
        out = <<Plain("Using ccr config from"),
                Plain("=== Basic Query Example ===")>>
              \o ExpectedBasic(received)

C9_Witness ==
    /\ cur = "basic"
    /\ pc = "recv"
    /\ Len(received) = 2
    /\ received[1].type = "result" /\ received[1].hasCost /\ received[1].cost = 0
    /\ received[2].type = "assistant"

\* C10 as stated: main() eventually returns on every path.
C10_EventuallyReturns == <>(pc = "returned")

\* C10, amended: main() eventually terminates on every path, by returning or
\* by letting through an exception that does not derive from Exception.
C10_Terminates == <>Terminated

C10_Witness ==
    /\ Terminated
    /\ Raised
    /\ Len(started) = 3

====
